---------------------------- MODULE Spec2Model ----------------------------
(***************************************************************************)
(* A model of cyipopt/scipy_interface.py: the adapter IpoptProblemWrapper, *)
(* the structure builders (get_constraint_dimensions,                      *)
(* get_constraint_bounds, __get_sparse_jacobian_structure), the option      *)
(* translation (convert_to_bytes, replace_option) and the driver           *)
(* minimize_ipopt.                                                         *)
(*                                                                         *)
(* Numbers are small integers.  Arrays are sequences; a 2-D array is a     *)
(* sequence of rows.  Row and column indices keep numpy's base 0.  A       *)
(* Python dict is a sequence of <<key, value>> pairs with distinct keys,   *)
(* in insertion order.  A call that raises is a record with ok = FALSE and *)
(* the exception's type in err.                                            *)
(***************************************************************************)
EXTENDS Integers, Sequences, FiniteSets, TLC

(* ------------------------------ bounds -------------------------------- *)

\* Number of optimisation variables n = len(x0).
NVars == 2

\* Longest constraint list handed to minimize_ipopt.
MaxCons == 2

\* Cap on the number of objective() and of gradient() calls the solver makes.
MaxCalls == 2

\* Largest iter_count the solver reports through intermediate().
MaxIter == 1

(* ------------------------- program constants -------------------------- *)

\* INF=1e19, the upper bound of an inequality constraint; any value larger
\* than every other number of the model stands for it.
INF == 1000000

\* eps=1e-8, the forward-difference step; one unit of the integer grid.
EPS == 1

(* ------------------------------ arrays -------------------------------- *)

RECURSIVE SumSeq(_)
SumSeq(s) == IF s = <<>> THEN 0 ELSE Head(s) + SumSeq(Tail(s))

RECURSIVE Flatten(_)
Flatten(ss) == IF ss = <<>> THEN <<>> ELSE Head(ss) \o Flatten(Tail(ss))

Ok(v) == [ok |-> TRUE, err |-> "", val |-> v]

Raise(e) == [ok |-> FALSE, err |-> e, val |-> <<>>]

\* np.hstack of a list of 1-D arrays: the concatenation, and ValueError
\* ("need at least one array to concatenate") for the empty list.
Hstack(arrs) == IF Len(arrs) = 0 THEN Raise("ValueError") ELSE Ok(Flatten(arrs))

\* An array as a callable returns it: its number of dimensions and its data.
Arr1(v) == [ndim |-> 1, v |-> v]

Arr2(m) == [ndim |-> 2, v |-> m]

\* np.atleast_2d: a 1-D array of length k becomes the 1 x k matrix.
AtLeast2d(a) == IF a.ndim = 1 THEN <<a.v>> ELSE a.v

\* ndarray.ravel(): row-major flattening of a matrix.
Ravel(m) == Flatten(m)

\* np.ones((d, n)) and np.ones_like.
Ones(d, n) == [r \in 1..d |-> [c \in 1..n |-> 1]]

OnesLike(m) == Ones(Len(m), Len(m[1]))

\* The index pairs of a d x n matrix in row-major order, base 0.
RowMajorPairs(d, n) ==
    [k \in 1..(d * n) |-> <<(k - 1) \div n, (k - 1) % n>>]

\* coo_array(dense): a triplet object holding the nonzero entries of the
\* matrix in row-major order (M.nonzero()); zeros are dropped.
CooFromDense(m) ==
    LET d == Len(m)
        n == Len(m[1])
        nz == SelectSeq(RowMajorPairs(d, n),
                        LAMBDA p : m[p[1] + 1][p[2] + 1] # 0)
    IN  [nrows |-> d,
         row |-> [k \in 1..Len(nz) |-> nz[k][1]],
         col |-> [k \in 1..Len(nz) |-> nz[k][2]],
         data |-> [k \in 1..Len(nz) |-> m[nz[k][1] + 1][nz[k][2] + 1]]]

\* scipy.sparse.vstack of triplet objects: block after block, each block's
\* entries in its own order, its rows shifted by the rows stacked so far.
RECURSIVE VStackFrom(_, _)
VStackFrom(blocks, offset) ==
    IF blocks = <<>> THEN [row |-> <<>>, col |-> <<>>]
    ELSE LET b == Head(blocks)
             rest == VStackFrom(Tail(blocks), offset + b.nrows)
         IN  [row |-> [k \in 1..Len(b.row) |-> b.row[k] + offset] \o rest.row,
              col |-> b.col \o rest.col]

VStack(blocks) == VStackFrom(blocks, 0)

(* ------------------------ the caller's callables ---------------------- *)

\* A point x: one coordinate per variable.
Points == [1..NVars -> 0..1]

\* The function every sample constraint is built from.
Quad(x) == SumSeq([c \in 1..Len(x) |-> c * x[c] * x[c]])

\* The value array of constraint function f at x with extra argument a:
\* component j is a + (a + 1) * id * j * Quad(x).
FunValue(f, x, a) ==
    [j \in 1..f.dim |-> a + (a + 1) * f.id * j * Quad(x)]

\* Its derivative matrix, dim x n: entry (j, c) is (a+1) * id * j * 2c * x[c],
\* zero wherever x[c] = 0.
FunDeriv(f, x, a) ==
    [j \in 1..f.dim |-> [c \in 1..Len(x) |-> (a + 1) * f.id * j * 2 * c * x[c]]]

\* A dense Jacobian as a callable returns it: 1-D for a scalar constraint.
AsArray(m) == IF Len(m) = 1 THEN Arr1(m[1]) ELSE Arr2(m)

\* A sparse Jacobian callable with a fixed pattern: every entry but (0, 0),
\* stored in reverse row-major order, zeros stored explicitly.
FixedPattern(d, n) ==
    LET p == RowMajorPairs(d, n)
    IN  [k \in 1..(d * n - 1) |-> p[d * n + 1 - k]]

UserCoo(f, x, a) ==
    LET m == FunDeriv(f, x, a)
        p == FixedPattern(f.dim, Len(x))
    IN  [nrows |-> f.dim,
         row |-> [k \in 1..Len(p) |-> p[k][1]],
         col |-> [k \in 1..Len(p) |-> p[k][2]],
         data |-> [k \in 1..Len(p) |-> m[p[k][1] + 1][p[k][2] + 1]]]

\* con['fun'](x, *args): a "pair" function returns (value, Jacobian), a
\* "memo" function is MemoizeJac around a pair function and returns the value.
CallFun(f, x, a) ==
    IF f.kind = "pair"
    THEN <<FunValue(f, x, a), AsArray(FunDeriv(f, x, a))>>
    ELSE FunValue(f, x, a)

\* MemoizeJac(fun): calling it gives fun(...)[0], .derivative gives fun(...)[1].
MemoizeJac(f) == [f EXCEPT !.kind = "memo"]

\* scipy's approx_fprime(xk, f, epsilon, *args): forward differences of the
\* value-returning callable g; 1-D for a scalar g.
Step(x, c, eps) == [x EXCEPT ![c] = x[c] + eps]

approx_fprime(x, g, eps, a) ==
    AsArray([j \in 1..g.dim |->
                [c \in 1..Len(x) |->
                    (CallFun(g, Step(x, c, eps), a)[j] - CallFun(g, x, a)[j])
                        \div eps]])

\* A constraint's Jacobian callable, as IpoptProblemWrapper stores it.  The
\* finite-difference lambda of line 146 reads the variable con_fun of
\* __init__ when it is called, not when it is made: cell is that variable's
\* value at the time of the call.
CallJac(jac, cell, x, a) ==
    CASE jac.kind = "fd" -> approx_fprime(x, cell, EPS, a)
      [] jac.kind = "derivative" -> CallFun([jac.f EXCEPT !.kind = "pair"], x, a)[2]
      [] jac.kind = "dense" -> AsArray(FunDeriv(jac.f, x, a))
      [] jac.kind = "coo" -> UserCoo(jac.f, x, a)
      [] jac.kind = "coo_nz" -> CooFromDense(FunDeriv(jac.f, x, a))

\* The constraint dictionaries a caller writes.  jac is "None" (absent),
\* "True" (fun returns the pair), "False", or a callable returning a dense
\* array ("dense") or a triplet object ("coo": fixed pattern, "coo_nz": the
\* nonzeros of the dense matrix).
Con(id, dim, jac, hess, type, a) ==
    [fun |-> [id |-> id, dim |-> dim,
              kind |-> IF jac = "True" THEN "pair" ELSE "plain"],
     jac |-> jac, hess |-> hess, type |-> type, args |-> a, kwargs |-> ""]

IsCallable(j) == j \in {"dense", "coo", "coo_nz", "callable"}

\* con.get('jac') as a callable object of constraint con.
JacCallable(con) == [kind |-> con.jac, f |-> con.fun]

(* -------------------------- structure builders ------------------------ *)

\* The value array con['fun'] gives at x: the first component of the pair
\* when the constraint's jac is True (lines 276-281, 292-297).
ProbeValue(con, x) ==
    IF con.jac = "True"
    THEN CallFun(con.fun, x, con.args)[1]
    ELSE CallFun(con.fun, x, con.args)

get_constraint_dimensions(constraints, x0) ==
    [i \in 1..Len(constraints) |-> Len(ProbeValue(constraints[i], x0))]

Zeros(m) == [k \in 1..m |-> 0]

Fill(m, v) == [k \in 1..m |-> v]

\* cl, cu and whether the loop raised ValueError(con['type']).
RECURSIVE BoundsLoop(_, _, _, _)
BoundsLoop(constraints, x0, cl, cu) ==
    IF constraints = <<>> THEN Ok(<<cl, cu>>)
    ELSE LET con == Head(constraints)
             m == Len(ProbeValue(con, x0))
         IN  IF con.type = "eq"
             THEN BoundsLoop(Tail(constraints), x0, cl \o Zeros(m), cu \o Zeros(m))
             ELSE IF con.type = "ineq"
             THEN BoundsLoop(Tail(constraints), x0, cl \o Zeros(m),
                             cu \o Fill(m, INF))
             ELSE Raise("ValueError")

\* The loop with the upper bounds of 'eq' and 'ineq' exchanged.
RECURSIVE BoundsLoopSwapped(_, _, _, _)
BoundsLoopSwapped(constraints, x0, cl, cu) ==
    IF constraints = <<>> THEN Ok(<<cl, cu>>)
    ELSE LET con == Head(constraints)
             m == Len(ProbeValue(con, x0))
         IN  IF con.type = "ineq"
             THEN BoundsLoopSwapped(Tail(constraints), x0, cl \o Zeros(m),
                                    cu \o Zeros(m))
             ELSE IF con.type = "eq"
             THEN BoundsLoopSwapped(Tail(constraints), x0, cl \o Zeros(m),
                                    cu \o Fill(m, INF))
             ELSE Raise("ValueError")

get_constraint_bounds_swapped(constraints, x0) ==
    BoundsLoopSwapped(constraints, x0, <<>>, <<>>)

\* get_constraint_bounds, lines 286-308.
get_constraint_bounds(constraints, x0) == BoundsLoop(constraints, x0, <<>>, <<>>)

IsCoo(v) == "nrows" \in DOMAIN v

\* One constraint's block of the structure and its sparse flag
\* (lines 243-266).
StructureBlock(con, x0) ==
    IF con.jac \in {"None", "False"}
    THEN [sparse |-> FALSE,
          coo |-> CooFromDense(Ones(Len(ProbeValue(con, x0)), Len(x0)))]
    ELSE LET jac_val == IF con.jac = "True"
                        THEN CallFun(con.fun, x0, con.args)[2]
                        ELSE CallJac(JacCallable(con), con.fun, x0, con.args)
         IN  IF IsCoo(jac_val)
             THEN [sparse |-> TRUE, coo |-> jac_val]
             ELSE [sparse |-> FALSE,
                   coo |-> CooFromDense(OnesLike(AtLeast2d(jac_val)))]

_get_sparse_jacobian_structure(constraints, x0) ==
    IF Len(constraints) = 0
    THEN [sparse |-> <<>>, row |-> <<>>, col |-> <<>>]
    ELSE LET blocks == [i \in 1..Len(constraints) |->
                           StructureBlock(constraints[i], x0)]
             J == VStack([i \in 1..Len(blocks) |-> blocks[i].coo])
         IN  [sparse |-> [i \in 1..Len(blocks) |-> blocks[i].sparse],
              row |-> J.row, col |-> J.col]

(* ------------------------- IpoptProblemWrapper ------------------------ *)

\* The objective and its derivatives: fun(x, *args) = Quad(x) + a.
ObjValue(x, a) == Quad(x) + a

ObjGrad(x, a) == [c \in 1..Len(x) |-> 2 * c * x[c]]

\* hess(x, *args): an n x n matrix, entry (r, c) = 10 r + c + a + Quad(x); not
\* symmetric, so that a transposed or upper-triangle read shows.
ObjHess(x, a) ==
    [r \in 1..Len(x) |-> [c \in 1..Len(x) |-> 10 * r + c + a + Quad(x)]]

\* A constraint's hess(x, lagr, *args): the multiplier-weighted sum of its
\* components' Hessians, component j's entry (r, c) being id * j * (r + 2c) + a.
ConHess(f, x, lagr, a) ==
    [r \in 1..Len(x) |->
        [c \in 1..Len(x) |->
            SumSeq([j \in 1..Len(lagr) |-> lagr[j] * (f.id * j * (r + 2 * c) + a)])]]

\* A test that sees only a constraint without a Hessian.
HessianMismatchOneWay(obj_hess, con_hessian) ==
    obj_hess # "None" /\ con_hessian = "None"

\* The test of lines 153-155: exactly one of the objective and the constraint
\* has a Hessian.
HessianMismatch(obj_hess, con_hessian) ==
    \/ (obj_hess # "None" /\ con_hessian = "None")
    \/ (obj_hess = "None" /\ con_hessian # "None")

\* The loop of lines 139-162 over the constraints from the i-th on.  acc holds
\* the lists built so far and con_fun, the loop's variable that the lambda of
\* line 146 closes over.
RECURSIVE InitLoop(_, _, _, _)
InitLoop(constraints, i, obj_hess, acc) ==
    IF i > Len(constraints) THEN Ok(acc)
    ELSE LET con == constraints[i]
             con_fun == IF con.jac = "True" THEN MemoizeJac(con.fun) ELSE con.fun
             con_jac == IF con.jac = "None" THEN [kind |-> "fd", f |-> con.fun]
                        ELSE IF con.jac = "True"
                        THEN [kind |-> "derivative", f |-> con_fun]
                        ELSE JacCallable(con)
         IN  IF con.jac # "None" /\ con.jac # "True" /\ ~IsCallable(con.jac)
             THEN Raise("NotImplementedError")
             ELSE IF HessianMismatch(obj_hess, con.hess)
             THEN Raise("NotImplementedError")
             ELSE InitLoop(constraints, i + 1, obj_hess,
                      [con_fun |-> con_fun,
                       constraint_funs |-> Append(acc.constraint_funs, con_fun),
                       constraint_jacs |-> Append(acc.constraint_jacs, con_jac),
                       constraint_hessians |-> Append(acc.constraint_hessians, con.hess),
                       constraint_args |-> Append(acc.constraint_args, con.args)])

NoFun == [id |-> 0, dim |-> 0, kind |-> "plain"]

\* IpoptProblemWrapper.__init__: the adapter, or the exception it raises.
\* c is the call's arguments (fun's args, jac, hess, hessp, constraints).
IpoptProblemWrapper(c, con_dims, sparse_jacs, jac_nnz_row, jac_nnz_col) ==
    LET loop == InitLoop(c.constraints, 1, c.hess,
                    [con_fun |-> NoFun, constraint_funs |-> <<>>,
                     constraint_jacs |-> <<>>, constraint_hessians |-> <<>>,
                     constraint_args |-> <<>>])
    IN  IF c.hessp # "None" THEN Raise("NotImplementedError")
        ELSE IF c.jac # "None" /\ c.jac # "True" /\ ~IsCallable(c.jac)
        THEN Raise("NotImplementedError")
        ELSE IF ~loop.ok THEN loop
        ELSE Ok([obj_hess |-> c.hess,
                 jac |-> IF c.jac = "None" THEN "fd"
                         ELSE IF c.jac = "True" THEN "derivative" ELSE "callable",
                 args |-> c.args,
                 con_fun |-> loop.val.con_fun,
                 constraint_funs |-> loop.val.constraint_funs,
                 constraint_jacs |-> loop.val.constraint_jacs,
                 constraint_hessians |-> loop.val.constraint_hessians,
                 constraint_dims |-> con_dims,
                 constraint_args |-> loop.val.constraint_args,
                 constraint_jac_is_sparse |-> sparse_jacs,
                 constraint_jacobian_structure |-> <<jac_nnz_row, jac_nnz_col>>,
                 nfev |-> 0, njev |-> 0, nit |-> 0])

\* objective(x) and gradient(x): the adapter with its counter raised, and the
\* value returned.
objective(p, x) ==
    [self |-> [p EXCEPT !.nfev = p.nfev + 1], ret |-> Ok(<<ObjValue(x, p.args)>>)]

\* A gradient that raises the wrong counter.
gradient_counting_nfev(p, x) ==
    [self |-> [p EXCEPT !.nfev = p.nfev + 1], ret |-> Ok(ObjGrad(x, p.args))]

\* gradient(x), lines 177-179; jac is the finite-difference closure of
\* lines 116-119 when the caller gave none.
gradient(p, x) ==
    [self |-> [p EXCEPT !.njev = p.njev + 1],
     ret |-> Ok(IF p.jac = "fd"
                THEN [c \in 1..Len(x) |->
                         (ObjValue(Step(x, c, EPS), p.args) - ObjValue(x, p.args))
                             \div EPS]
                ELSE ObjGrad(x, p.args))]

\* evaluate_fun_with_grad(x): objective, then gradient.
evaluate_fun_with_grad(p, x) ==
    LET o == objective(p, x)
        g == gradient(o.self, x)
    IN  [self |-> g.self, ret |-> Ok(o.ret.val \o g.ret.val)]

\* constraints(x), lines 181-187.
ConstraintValues(p, x) ==
    [i \in 1..Len(p.constraint_funs) |->
        CallFun(p.constraint_funs[i], x, p.constraint_args[i])]

constraints(p, x) == Hstack(ConstraintValues(p, x))

jacobianstructure(p) == p.constraint_jacobian_structure

\* jacobian(x), lines 192-206: constraint i's values, .data of a sparse
\* Jacobian and the row-major flattening of a dense one.
JacobianBlock(p, i, x) ==
    LET jac_val == CallJac(p.constraint_jacs[i], p.con_fun, x, p.constraint_args[i])
    IN  IF p.constraint_jac_is_sparse[i]
        THEN jac_val.data
        ELSE Ravel(AtLeast2d(jac_val))

jacobian(p, x) ==
    Hstack([i \in 1..Len(p.constraint_jacs) |-> JacobianBlock(p, i, x)])

\* np.cumsum.
RECURSIVE CumSum(_)
CumSum(s) ==
    IF s = <<>> THEN <<>>
    ELSE LET front == CumSum(SubSeq(s, 1, Len(s) - 1))
         IN  Append(front, SumSeq(s))

Min(a, b) == IF a < b THEN a ELSE b

\* a[lo:hi] of Python, indices clamped to the array.
Slice(a, lo, hi) == SubSeq(a, Min(lo, Len(a)) + 1, Min(hi, Len(a)))

\* A split that drops the last piece a[ik:].
SplitAtTotals(a, indices) ==
    [t \in 1..Len(indices) |->
        Slice(a, IF t = 1 THEN 0 ELSE indices[t - 1], indices[t])]

\* np.split(a, indices): a[:i1], a[i1:i2], ..., a[ik:].
Split(a, indices) ==
    [t \in 1..(Len(indices) + 1) |->
        Slice(a, IF t = 1 THEN 0 ELSE indices[t - 1],
                 IF t = Len(indices) + 1 THEN Len(a) ELSE indices[t])]

MatAdd(A, B) == [r \in 1..Len(A) |-> [c \in 1..Len(A[r]) |-> A[r][c] + B[r][c]]]

MatScale(k, A) == [r \in 1..Len(A) |-> [c \in 1..Len(A[r]) |-> k * A[r][c]]]

\* np.tril_indices(n): the lower triangle's index pairs, row by row.
RECURSIVE tril_indices(_)
tril_indices(n) ==
    IF n = 0 THEN <<>>
    ELSE tril_indices(n - 1) \o [c \in 1..n |-> <<n - 1, c - 1>>]

\* The loop of lines 212-215: zip stops at the shortest of its lists.
RECURSIVE HessLoop(_, _, _, _, _)
HessLoop(p, x, lagrs, i, H) ==
    IF i > Min(Len(p.constraint_hessians), Len(lagrs)) THEN H
    ELSE HessLoop(p, x, lagrs, i + 1,
             MatAdd(H, ConHess(p.constraint_funs[i], x, lagrs[i],
                               p.constraint_args[i])))

\* hessian(x, lagrange, obj_factor), lines 208-216.  Calling obj_hess when it
\* is None raises TypeError.
hessian(p, x, lagrange, obj_factor) ==
    IF p.obj_hess = "None" THEN Raise("TypeError")
    ELSE LET H0 == MatScale(obj_factor, ObjHess(x, p.args))
             dims == p.constraint_dims
             lagrs == Split(lagrange, CumSum(SubSeq(dims, 1, Len(dims) - 1)))
             H == HessLoop(p, x, lagrs, 1, H0)
             idx == tril_indices(Len(x))
         IN  Ok([k \in 1..Len(idx) |-> H[idx[k][1] + 1][idx[k][2] + 1]])

\* intermediate(alg_mod, iter_count, ...): only iter_count is kept.
intermediate(p, iter_count) == [p EXCEPT !.nit = iter_count]

(* -------------------------- option translation ------------------------ *)

\* Dictionary keys are text (str) or bytes; values are written as text.
StrKey(name) == [enc |-> "str", name |-> name]

BytesKey(name) == [enc |-> "bytes", name |-> name]

DictHas(d, k) == \E i \in 1..Len(d) : d[i][1] = k

DictGet(d, k) == d[CHOOSE i \in 1..Len(d) : d[i][1] = k][2]

\* d[k] = v: an existing key keeps its place, a new one goes last.
DictSet(d, k, v) ==
    IF DictHas(d, k)
    THEN [i \in 1..Len(d) |-> IF d[i][1] = k THEN <<k, v>> ELSE d[i]]
    ELSE Append(d, <<k, v>>)

DictPop(d, k) == SelectSeq(d, LAMBDA kv : kv[1] # k)

\* replace_option, lines 311-314.
replace_option(opts, oldname, newname) ==
    IF DictHas(opts, oldname) /\ ~DictHas(opts, newname)
    THEN DictSet(DictPop(opts, oldname), newname, DictGet(opts, oldname))
    ELSE opts

\* convert_to_bytes, lines 317-325, over the keys as they were on entry:
\* a text key is stored again under its bytes form and removed; bytes(key,
\* 'utf-8') of a bytes key raises TypeError, which is passed over.
RECURSIVE ConvertKeys(_, _)
ConvertKeys(opts, keys) ==
    IF keys = <<>> THEN opts
    ELSE LET key == Head(keys)
         IN  IF key.enc = "str"
             THEN ConvertKeys(DictPop(DictSet(opts, BytesKey(key.name),
                                              DictGet(opts, key)), key),
                              Tail(keys))
             ELSE ConvertKeys(opts, Tail(keys))

convert_to_bytes(opts) == ConvertKeys(opts, [i \in 1..Len(opts) |-> opts[i][1]])

\* Python's truth value of the tol argument: None and 0.0 are false.
Truthy(v) == v \notin {"None", "0.0"}

\* tol or 1e-8, line 555.
TolOrDefault(tol) == IF Truthy(tol) THEN tol ELSE "1e-8"

SetDefault(opts, k, v) == IF DictHas(opts, k) THEN opts ELSE DictSet(opts, k, v)

\* Lines 535-536 and 547-560: the dictionary the options loop runs over.
TranslateOptions(c) ==
    LET o0 == IF c.options.none THEN <<>> ELSE c.options.items
        o1 == convert_to_bytes(o0)
        o2 == replace_option(o1, BytesKey("disp"), BytesKey("print_level"))
        o3 == replace_option(o2, BytesKey("maxiter"), BytesKey("max_iter"))
        o4 == SetDefault(o3, BytesKey("print_level"), "0")
        o5 == SetDefault(o4, BytesKey("tol"), TolOrDefault(c.tol))
        o6 == SetDefault(o5, BytesKey("mu_strategy"), "adaptive")
    IN  IF ~DictHas(o6, BytesKey("hessian_approximation"))
           /\ c.hess = "None" /\ c.hessp = "None"
        THEN DictSet(o6, BytesKey("hessian_approximation"), "limited-memory")
        ELSE o6

(* ------------------------- the generic minimizer ---------------------- *)

\* A callable of the caller, with the keyword arguments baked into it ("" for
\* none); None and True are objects that are not callable.
Obj(fn) == [fn |-> fn, kw |-> ""]

\* _wrap_fun, lines 328-334.
wrap_fun(f, kwargs) ==
    IF f.fn \notin {"None", "True", "False"} /\ kwargs # ""
    THEN [f EXCEPT !.kw = kwargs]
    ELSE f

\* The caller's view of a constraint dictionary's fun and jac as objects.
ConFunObj(con) == Obj("con_fun")

ConJacObj(con) ==
    Obj(IF IsCallable(con.jac) THEN "con_jac" ELSE con.jac)

\* _wrap_funs, lines 336-351: the callables handed to scipy's minimize.
wrap_funs(c) ==
    [fun |-> wrap_fun(Obj("fun"), c.kwargs),
     jac |-> wrap_fun(Obj(IF IsCallable(c.jac) THEN "jac" ELSE c.jac), c.kwargs),
     hess |-> wrap_fun(Obj(c.hess), c.kwargs),
     hessp |-> wrap_fun(Obj(c.hessp), c.kwargs),
     constraints |->
        [i \in 1..Len(c.constraints) |->
            [fun |-> wrap_fun(ConFunObj(c.constraints[i]), c.constraints[i].kwargs),
             jac |-> wrap_fun(ConJacObj(c.constraints[i]), c.constraints[i].kwargs),
             type |-> c.constraints[i].type,
             args |-> c.constraints[i].args]]]

\* A routing that knows one generic method only.
UsesGenericOnlySLSQP(method) == method = "SLSQP"

\* "if method is not None", line 507.
UsesGeneric(method) == method # "None"

(* ----------------------------- the state ----------------------------- *)

VARIABLES
    call,      \* the arguments of this call of minimize_ipopt
    pc,        \* where minimize_ipopt stands
    err,       \* the exception minimize_ipopt raised, and the statement raising it
    probe,     \* cl, cu, con_dims, sparse_jacs, jac_nnz_row, jac_nnz_col
    problem,   \* the IpoptProblemWrapper
    nlp,       \* the cyipopt.Problem: n, m and the options it accepted
    options,   \* the local dictionary options, once translated
    todo,      \* position of the options loop of line 561
    ret,       \* the adapter method the solver called last, and what it returned
    hist,      \* what has been called so far, for stating the claims
    result     \* the value minimize_ipopt returned

vars == <<call, pc, err, probe, problem, nlp, options, todo, ret, hist, result>>

(* --------------------------- sample inputs ---------------------------- *)

\* The constraint dictionaries of the sample problems.  The first six are
\* well formed; the seventh has jac=False, the eighth an unknown type.
SampleCons(hess) ==
    { Con(1, 1, "None", hess, "eq", 0),
      Con(2, 2, "None", hess, "ineq", 1),
      Con(3, 1, "dense", hess, "ineq", 1),
      Con(1, 2, "coo", hess, "eq", 0),
      Con(2, 2, "coo_nz", hess, "ineq", 0),
      Con(3, 1, "True", hess, "eq", 1),
      Con(1, 1, "False", hess, "eq", 0),
      Con(2, 1, "dense", hess, "other", 0) }

AllCons == SampleCons("None") \cup SampleCons("callable")

ConLists == UNION { [1..m -> AllCons] : m \in 0..MaxCons }

StartPoints == { [c \in 1..NVars |-> 0], [c \in 1..NVars |-> 1] }

NoOptions == [none |-> TRUE, items |-> <<>>]

Opts(items) == [none |-> FALSE, items |-> items]

BaseCall ==
    [method |-> "None", x0 |-> [c \in 1..NVars |-> 0], args |-> 1,
     kwargs |-> "", jac |-> "callable", hess |-> "None", hessp |-> "None",
     constraints |-> <<>>, tol |-> "None", options |-> NoOptions]

\* Problems that differ in their constraints: every list of sample
\* constraints, with and without an objective Hessian.
StructureCalls ==
    { [BaseCall EXCEPT !.constraints = cs, !.hess = h, !.x0 = x0] :
        cs \in ConLists, h \in {"None", "callable"}, x0 \in StartPoints }

\* The option dictionaries of the sample calls.
SampleOptions ==
    { NoOptions,
      Opts(<<>>),
      Opts(<< <<StrKey("disp"), "5">> >>),
      Opts(<< <<BytesKey("disp"), "5">>, <<StrKey("maxiter"), "50">> >>),
      Opts(<< <<StrKey("print_level"), "3">> >>),
      Opts(<< <<StrKey("disp"), "5">>, <<StrKey("print_level"), "3">> >>),
      Opts(<< <<StrKey("max_iter"), "9">>, <<StrKey("maxiter"), "50">> >>),
      Opts(<< <<StrKey("tol"), "1e-3">>, <<BytesKey("mu_strategy"), "monotone">> >>),
      Opts(<< <<StrKey("hessian_approximation"), "exact">> >>),
      Opts(<< <<BytesKey("hessian_approximation"), "limited-memory">>,
              <<StrKey("tol"), "1e-3">> >>),
      Opts(<< <<StrKey("linear_solver"), "mumps">>, <<StrKey("disp"), "5">> >>) }

\* Calls on the default path that differ in options, tol, hess and hessp.
OptionCalls ==
    { [BaseCall EXCEPT !.options = o, !.tol = t, !.hess = h, !.hessp = hp] :
        o \in SampleOptions, t \in {"None", "0.0", "1e-6"},
        h \in {"None", "callable"}, hp \in {"None", "callable"} }

SmallConLists ==
    { <<>>,
      << Con(1, 1, "None", "None", "eq", 0) >>,
      << Con(2, 2, "dense", "callable", "ineq", 1) >>,
      << Con(2, 1, "dense", "None", "other", 0) >> }

\* Calls on the default path that differ in the objective's derivatives.
ObjectiveCalls ==
    { [BaseCall EXCEPT !.jac = j, !.hess = h, !.constraints = cs] :
        j \in {"None", "True", "callable", "False"},
        h \in {"None", "callable"}, cs \in SmallConLists }

\* Calls that name a method of scipy's minimize.
GenericCalls ==
    { [BaseCall EXCEPT !.method = m, !.kwargs = kw, !.jac = j, !.hess = h,
                       !.hessp = hp, !.constraints = cs] :
        m \in {"SLSQP", "BFGS"}, kw \in {"", "kw"},
        j \in {"None", "True", "callable"}, h \in {"None", "callable"},
        hp \in {"None", "callable"},
        cs \in { <<>>,
                 << Con(1, 1, "None", "None", "eq", 0) >>,
                 << [Con(2, 2, "dense", "None", "ineq", 1) EXCEPT !.kwargs = "ckw"],
                    Con(3, 1, "True", "None", "eq", 0) >> } }

DriverCalls == OptionCalls \cup ObjectiveCalls \cup GenericCalls

(* ------------------------------- Init --------------------------------- *)

NoHist ==
    [minimize |-> 0, minimize_args |-> <<>>, minimize_ret |-> "",
     probe |-> 0, wrapper |-> 0, nlp |-> 0, add_option |-> <<>>, solve |-> 0,
     objective |-> 0, gradient |-> 0, intermediate |-> <<>>]

NoRet == [call |-> "", x |-> <<>>, lagrange |-> <<>>, obj_factor |-> 0,
          out |-> Ok(<<>>)]

Fresh ==
    /\ pc = "start"
    /\ err = [type |-> "", at |-> "", option |-> <<>>, original |-> "", msg |-> <<>>]
    /\ probe = [cl |-> <<>>, cu |-> <<>>, con_dims |-> <<>>, sparse_jacs |-> <<>>,
                jac_nnz_row |-> <<>>, jac_nnz_col |-> <<>>]
    /\ problem = [nfev |-> 0, njev |-> 0, nit |-> 0]
    /\ nlp = [n |-> 0, m |-> 0, options |-> <<>>]
    /\ options = <<>>
    /\ todo = 0
    /\ ret = NoRet
    /\ hist = NoHist
    /\ result = [kind |-> "none"]

Init == call \in DriverCalls /\ Fresh

InitStructure == call \in StructureCalls /\ Fresh

\* The constrained problems that keep to what the structure assumes: at
\* least one constraint, and no sparse Jacobian whose pattern moves with x.
InitFixedPattern ==
    /\ call \in { c \in StructureCalls :
                    /\ Len(c.constraints) >= 1
                    /\ \A i \in 1..Len(c.constraints) :
                          c.constraints[i].jac # "coo_nz" }
    /\ Fresh

(* ------------------------ minimize_ipopt's steps ---------------------- *)

\* What scipy's minimize may return.
GenericResults == {"minimize_ok", "minimize_failed"}

\* Lines 507-512: a method is named; wrap the callables, call minimize and
\* return what it returns.
MinimizeGeneric ==
    /\ pc = "start"
    /\ UsesGeneric(call.method)
    /\ \E res \in GenericResults :
        /\ hist' = [hist EXCEPT !.minimize = @ + 1,
                                !.minimize_args = wrap_funs(call),
                                !.minimize_ret = res]
        /\ result' = [kind |-> "generic", res |-> res]
    /\ pc' = "returned"
    /\ UNCHANGED <<call, err, probe, problem, nlp, options, todo, ret>>

\* Lines 514-520: the bounds, the dimensions and the Jacobian structure at x0.
StructureProbe ==
    /\ pc = "start"
    /\ ~UsesGeneric(call.method)
    /\ hist' = [hist EXCEPT !.probe = @ + 1]
    /\ LET b == get_constraint_bounds(call.constraints, call.x0)
           s == _get_sparse_jacobian_structure(call.constraints, call.x0)
       IN  IF b.ok
           THEN /\ probe' = [cl |-> b.val[1], cu |-> b.val[2],
                             con_dims |-> get_constraint_dimensions(call.constraints,
                                                                    call.x0),
                             sparse_jacs |-> s.sparse,
                             jac_nnz_row |-> s.row, jac_nnz_col |-> s.col]
                /\ pc' = "probed"
                /\ err' = err
           ELSE /\ pc' = "raised"
                /\ err' = [err EXCEPT !.type = b.err, !.at = "get_constraint_bounds"]
                /\ probe' = probe
    /\ UNCHANGED <<call, problem, nlp, options, todo, ret, result>>

\* Lines 522-533: the adapter is constructed.
Construct ==
    /\ pc = "probed"
    /\ hist' = [hist EXCEPT !.wrapper = @ + 1]
    /\ LET w == IpoptProblemWrapper(call, probe.con_dims, probe.sparse_jacs,
                                    probe.jac_nnz_row, probe.jac_nnz_col)
       IN  IF w.ok
           THEN /\ problem' = w.val
                /\ pc' = "wrapped"
                /\ err' = err
           ELSE /\ pc' = "raised"
                /\ err' = [err EXCEPT !.type = w.err, !.at = "IpoptProblemWrapper"]
                /\ problem' = problem
    /\ UNCHANGED <<call, probe, nlp, options, todo, ret, result>>

\* Lines 535-560: the solver handle is constructed with n = len(x0) and
\* m = len(cl), and the options are translated.
MakeSolver ==
    /\ pc = "wrapped"
    /\ hist' = [hist EXCEPT !.nlp = @ + 1]
    /\ nlp' = [n |-> Len(call.x0), m |-> Len(probe.cl), options |-> <<>>]
    /\ options' = TranslateOptions(call)
    /\ todo' = 1
    /\ pc' = "options"
    /\ UNCHANGED <<call, err, probe, problem, ret, result>>

\* Lines 561-563: one pass of the options loop, add_option accepting.
AddOption ==
    /\ pc = "options"
    /\ todo <= Len(options)
    /\ hist' = [hist EXCEPT !.add_option = Append(@, options[todo])]
    /\ nlp' = [nlp EXCEPT !.options = Append(@, options[todo])]
    /\ todo' = todo + 1
    /\ UNCHANGED <<call, pc, err, probe, problem, options, ret, result>>

\* The messages of the TypeError that add_option may raise.
SolverMessages == {"unknown option", "incorrect value type"}

\* A message that leaves out the value.
InvalidOptionMessageNoValue(option, value, e) ==
    <<"Invalid option for IPOPT: ", option, " (Original message: \"", e, "\")">>

\* Lines 565-566: msg.format(option, value, e).
InvalidOptionMessage(option, value, e) ==
    <<"Invalid option for IPOPT: ", option, ": ", value,
      " (Original message: \"", e, "\")">>

\* Lines 561-566: add_option raises TypeError e, which is raised again as a
\* TypeError with the option, its value and the message of e.
AddOptionRejected ==
    /\ pc = "options"
    /\ todo <= Len(options)
    /\ hist' = [hist EXCEPT !.add_option = Append(@, options[todo])]
    /\ pc' = "raised"
    /\ \E e \in SolverMessages :
        err' = [type |-> "TypeError", at |-> "add_option",
                option |-> options[todo], original |-> e,
                msg |-> InvalidOptionMessage(options[todo][1], options[todo][2], e)]
    /\ UNCHANGED <<call, probe, problem, nlp, options, todo, ret, result>>

\* Line 568: nlp.solve(_x0) is entered.
SolveBegin ==
    /\ pc = "options"
    /\ todo > Len(options)
    /\ hist' = [hist EXCEPT !.solve = @ + 1]
    /\ pc' = "solving"
    /\ UNCHANGED <<call, err, probe, problem, nlp, options, todo, ret, result>>

(* ------------------ the solver calling the adapter -------------------- *)

Called(name, x, out) ==
    [call |-> name, x |-> x, lagrange |-> <<>>, obj_factor |-> 0, out |-> out]

CallObjective ==
    /\ pc = "solving"
    /\ hist.objective < MaxCalls
    /\ \E x \in Points :
        LET r == objective(problem, x)
        IN  /\ problem' = r.self
            /\ ret' = Called("objective", x, r.ret)
    /\ hist' = [hist EXCEPT !.objective = @ + 1]
    /\ UNCHANGED <<call, pc, err, probe, nlp, options, todo, result>>

CallGradient ==
    /\ pc = "solving"
    /\ hist.gradient < MaxCalls
    /\ \E x \in Points :
        LET r == gradient(problem, x)
        IN  /\ problem' = r.self
            /\ ret' = Called("gradient", x, r.ret)
    /\ hist' = [hist EXCEPT !.gradient = @ + 1]
    /\ UNCHANGED <<call, pc, err, probe, nlp, options, todo, result>>

CallEvaluateFunWithGrad ==
    /\ pc = "solving"
    /\ hist.objective < MaxCalls
    /\ hist.gradient < MaxCalls
    /\ \E x \in Points :
        LET r == evaluate_fun_with_grad(problem, x)
        IN  /\ problem' = r.self
            /\ ret' = Called("evaluate_fun_with_grad", x, r.ret)
    /\ hist' = [hist EXCEPT !.objective = @ + 1, !.gradient = @ + 1]
    /\ UNCHANGED <<call, pc, err, probe, nlp, options, todo, result>>

CallConstraints ==
    /\ pc = "solving"
    /\ \E x \in Points : ret' = Called("constraints", x, constraints(problem, x))
    /\ UNCHANGED <<call, pc, err, probe, problem, nlp, options, todo, hist, result>>

CallJacobianStructure ==
    /\ pc = "solving"
    /\ ret' = Called("jacobianstructure", <<>>, Ok(jacobianstructure(problem)))
    /\ UNCHANGED <<call, pc, err, probe, problem, nlp, options, todo, hist, result>>

CallJacobian ==
    /\ pc = "solving"
    /\ \E x \in Points : ret' = Called("jacobian", x, jacobian(problem, x))
    /\ UNCHANGED <<call, pc, err, probe, problem, nlp, options, todo, hist, result>>

\* The multiplier vectors the solver passes: one multiplier per constraint
\* row, all different or all one.
Multipliers(m) == { [k \in 1..m |-> k + 1], [k \in 1..m |-> 1] }

CallHessian ==
    /\ pc = "solving"
    /\ \E x \in Points, lagrange \in Multipliers(nlp.m), obj_factor \in {0, 2} :
        ret' = [call |-> "hessian", x |-> x, lagrange |-> lagrange,
                obj_factor |-> obj_factor,
                out |-> hessian(problem, x, lagrange, obj_factor)]
    /\ UNCHANGED <<call, pc, err, probe, problem, nlp, options, todo, hist, result>>

CallIntermediate ==
    /\ pc = "solving"
    /\ \E iter_count \in 0..MaxIter :
        /\ problem' = intermediate(problem, iter_count)
        /\ ret' = Called("intermediate", <<>>, Ok(<<>>))
        /\ hist' = [hist EXCEPT !.intermediate = <<iter_count>>]
    /\ UNCHANGED <<call, pc, err, probe, nlp, options, todo, result>>

\* What solve may report: info['status'], 'status_msg', 'obj_val'.
Infos ==
    { [status |-> 0, status_msg |-> "solved", obj_val |-> 0],
      [status |-> 1, status_msg |-> "acceptable", obj_val |-> 1],
      [status |-> -1, status_msg |-> "max_iter", obj_val |-> 2] }

\* A result that takes every status that is not negative for a success.
OptimizeResultNonNegative(x, info, p) ==
    [kind |-> "ipopt", x |-> x,
     success |-> (info.status >= 0), status |-> info.status,
     message |-> info.status_msg, fun |-> info.obj_val,
     info |-> info, nfev |-> p.nfev, njev |-> p.njev, nit |-> p.nit]

\* Lines 573-581: the result, from x, info and the adapter's counters.
OptimizeResult(x, info, p) ==
    [kind |-> "ipopt", x |-> x,
     success |-> (info.status = 0), status |-> info.status,
     message |-> info.status_msg, fun |-> info.obj_val,
     info |-> info, nfev |-> p.nfev, njev |-> p.njev, nit |-> p.nit]

\* Lines 568-581: solve returns x and info, and the result is assembled.
SolveReturn ==
    /\ pc = "solving"
    /\ \E info \in Infos : result' = OptimizeResult(call.x0, info, problem)
    /\ pc' = "returned"
    /\ ret' = NoRet
    /\ UNCHANGED <<call, err, probe, problem, nlp, options, todo, hist>>

Next ==
    \/ MinimizeGeneric
    \/ StructureProbe
    \/ Construct
    \/ MakeSolver
    \/ AddOption
    \/ AddOptionRejected
    \/ SolveBegin
    \/ CallObjective
    \/ CallGradient
    \/ CallEvaluateFunWithGrad
    \/ CallConstraints
    \/ CallJacobianStructure
    \/ CallJacobian
    \/ CallHessian
    \/ CallIntermediate
    \/ SolveReturn

\* The calls of the sample option, objective and generic problems.
Spec == Init /\ [][Next]_vars

\* The solver's calls that read the constraints.
NextStructure ==
    \/ StructureProbe
    \/ Construct
    \/ MakeSolver
    \/ AddOption
    \/ AddOptionRejected
    \/ SolveBegin
    \/ CallConstraints
    \/ CallJacobianStructure
    \/ CallJacobian
    \/ CallHessian
    \/ SolveReturn

\* The calls of the sample constrained problems.
SpecStructure == InitStructure /\ [][NextStructure]_vars

\* The same, for the problems whose sparse patterns are fixed.
SpecFixedPattern == InitFixedPattern /\ [][NextStructure]_vars

(* ------------------------------ claims -------------------------------- *)

\* The constraints of the call, their fixed output dimensions d_i and the
\* offset d_1 + ... + d_(i-1) of constraint i in a stacked vector.
Cons == call.constraints

Dim(i) == Cons[i].fun.dim

Dims == [i \in 1..Len(Cons) |-> Dim(i)]

Offset(i) == SumSeq(SubSeq(Dims, 1, i - 1))

\* Constraint i's own function at x with its own extra arguments.
OwnValue(i, x) == FunValue(Cons[i].fun, x, Cons[i].args)

Constructed == pc \in {"wrapped", "options", "solving", "returned"}

\* C1: for every constraint list of length m >= 0 and every x,
\* constraints(x) returns a vector of length d_1 + ... + d_m whose slice
\* [Offset(i), Offset(i) + d_i) is constraint i's own function at x with its
\* own arguments.
C1_ConstraintsStacked ==
    ret.call = "constraints" =>
        /\ ret.out.ok
        /\ Len(ret.out.val) = SumSeq(Dims)
        /\ \A i \in 1..Len(Cons) :
              SubSeq(ret.out.val, Offset(i) + 1, Offset(i) + Dim(i))
                  = OwnValue(i, ret.x)

\* C1 holds of every list of at least one constraint.
C1_NonEmptyList == Len(Cons) >= 1 => C1_ConstraintsStacked

\* C1 fails where there is no constraint: np.hstack([]) raises ValueError.
C1_EmptyListRaises ==
    (ret.call = "constraints" /\ Len(Cons) = 0) =>
        (~ret.out.ok /\ ret.out.err = "ValueError")

\* C2: jacobianstructure() returns the (row, col) arrays of the probe at x0
\* whatever was called before, and at every x jacobian(x) returns a vector
\* of length len(row).
C2_JacobianLength ==
    /\ ret.call = "jacobianstructure" =>
          ret.out.val = <<probe.jac_nnz_row, probe.jac_nnz_col>>
    /\ ret.call = "jacobian" =>
          /\ ret.out.ok
          /\ Len(ret.out.val) = Len(probe.jac_nnz_row)

\* The parts of C2 that hold: the structure never changes, and jacobian(x)
\* has len(row) values when there is a constraint, no sparse Jacobian drops
\* its zeros, and every constraint without a Jacobian has the dimension of
\* the last constraint.
C2_StructureStable ==
    ret.call = "jacobianstructure" =>
        ret.out.val = <<probe.jac_nnz_row, probe.jac_nnz_col>>

C2_LengthWhenBlocksAgree ==
    (/\ ret.call = "jacobian"
     /\ Len(Cons) >= 1
     /\ \A i \in 1..Len(Cons) :
           /\ Cons[i].jac # "coo_nz"
           /\ Cons[i].jac = "None" => Dim(i) = Dim(Len(Cons)))
    => (ret.out.ok /\ Len(ret.out.val) = Len(probe.jac_nnz_row))

\* The dense matrix a triplet object stands for.
ToDense(coo, d, n) ==
    [r \in 1..d |->
        [c \in 1..n |->
            IF \E k \in 1..Len(coo.row) : coo.row[k] = r - 1 /\ coo.col[k] = c - 1
            THEN coo.data[CHOOSE k \in 1..Len(coo.row) :
                              coo.row[k] = r - 1 /\ coo.col[k] = c - 1]
            ELSE 0]]

\* Constraint i's Jacobian at x, d_i x n: what its jac gives, and the forward
\* difference of its own function where it has none.
OwnJacobian(i, x) ==
    IF Cons[i].jac = "None"
    THEN [j \in 1..Dim(i) |->
             [c \in 1..Len(x) |->
                 (OwnValue(i, Step(x, c, EPS))[j] - OwnValue(i, x)[j]) \div EPS]]
    ELSE IF Cons[i].jac = "coo"
    THEN ToDense(UserCoo(Cons[i].fun, x, Cons[i].args), Dim(i), Len(x))
    ELSE FunDeriv(Cons[i].fun, x, Cons[i].args)

\* The constraint Jacobians stacked vertically.
StackedJacobian(x) == Flatten([i \in 1..Len(Cons) |-> OwnJacobian(i, x)])

\* C3: the k-th value of jacobian(x) is the entry (row[k], col[k]) of the
\* stacked constraint Jacobian at x.
C3_JacobianOrder ==
    (ret.call = "jacobian" /\ ret.out.ok) =>
        /\ Len(ret.out.val) = Len(probe.jac_nnz_row)
        /\ \A k \in 1..Len(probe.jac_nnz_row) :
              ret.out.val[k]
                  = StackedJacobian(ret.x)[probe.jac_nnz_row[k] + 1]
                                          [probe.jac_nnz_col[k] + 1]

\* C3 holds where no sparse Jacobian drops its zeros and only the last
\* constraint has no Jacobian.
C3_OrderWhenBlocksAgree ==
    (\A i \in 1..Len(Cons) :
        /\ Cons[i].jac # "coo_nz"
        /\ Cons[i].jac = "None" => i = Len(Cons))
    => C3_JacobianOrder

\* C4: cl and cu have length d_1 + ... + d_m, which is the total of
\* get_constraint_dimensions and the m of the solver; cl is zero; the
\* segment of cu of constraint i is zero for 'eq' and INF for 'ineq'; any
\* other type raises ValueError.
C4_ConstraintBounds ==
    LET bad == \E i \in 1..Len(Cons) : Cons[i].type \notin {"eq", "ineq"}
    IN  hist.probe = 1 =>
          /\ bad => /\ pc = "raised"
                    /\ err.type = "ValueError"
                    /\ err.at = "get_constraint_bounds"
          /\ ~bad =>
                /\ err.at # "get_constraint_bounds"
                /\ Len(probe.cl) = SumSeq(Dims)
                /\ Len(probe.cu) = SumSeq(Dims)
                /\ SumSeq(probe.con_dims) = SumSeq(Dims)
                /\ pc \in {"options", "solving", "returned"} => nlp.m = SumSeq(Dims)
                /\ \A k \in 1..Len(probe.cl) : probe.cl[k] = 0
                /\ \A i \in 1..Len(Cons) :
                      \A k \in (Offset(i) + 1)..(Offset(i) + Dim(i)) :
                          probe.cu[k] = IF Cons[i].type = "eq" THEN 0 ELSE INF
                /\ (\A i \in 1..Len(Cons) : Cons[i].type = "eq")
                      => probe.cl = probe.cu

\* C4's case: the bounds of a list with an equality and an inequality.
C4_Witness ==
    /\ pc = "probed"
    /\ \E i, j \in 1..Len(Cons) :
          /\ Cons[i].type = "eq" /\ Cons[j].type = "ineq"
          /\ Dim(i) = 2
    /\ Len(probe.cu) >= 3

\* C5: nfev and njev start at 0 and at every point equal the number of
\* objective and of gradient calls made so far (evaluate_fun_with_grad is
\* one of each), so they never decrease and no other method changes them.
C5_Counters ==
    Constructed =>
        /\ problem.nfev = hist.objective
        /\ problem.njev = hist.gradient
        /\ pc = "wrapped" => (problem.nfev = 0 /\ problem.njev = 0)

\* C5's case: both counters have moved, by different amounts, and a method
\* that counts nothing was called last.
C5_Witness ==
    /\ pc = "solving"
    /\ problem.nfev = 2
    /\ problem.njev = 1
    /\ ret.call = "jacobianstructure"

\* Exactly one of the objective and some constraint has a Hessian.
PartialHessians ==
    \/ (call.hess # "None" /\ \E i \in 1..Len(Cons) : Cons[i].hess = "None")
    \/ (call.hess = "None" /\ \E i \in 1..Len(Cons) : Cons[i].hess # "None")

\* Nothing but the Hessians can stop the construction.
OtherArgumentsValid ==
    /\ call.hessp = "None"
    /\ call.jac \in {"None", "True", "callable"}
    /\ \A i \in 1..Len(Cons) : Cons[i].jac # "False"

\* C6: constructing IpoptProblemWrapper raises NotImplementedError whenever
\* the objective has a Hessian and some constraint has none, or the other
\* way round, and succeeds when none or all of them have one.
C6_HessianSupply ==
    hist.wrapper = 1 =>
        /\ PartialHessians =>
              /\ pc = "raised"
              /\ err.at = "IpoptProblemWrapper"
              /\ err.type = "NotImplementedError"
        /\ (~PartialHessians /\ OtherArgumentsValid) =>
              (Constructed \/ (pc = "raised" /\ err.at = "add_option"))

\* C6's case: the objective has a Hessian, the second constraint has none.
C6_Witness ==
    /\ pc = "raised"
    /\ err.at = "IpoptProblemWrapper"
    /\ OtherArgumentsValid
    /\ call.hess # "None"
    /\ Len(Cons) = 2
    /\ Cons[1].hess # "None"
    /\ Cons[2].hess = "None"

\* The segment of the multiplier vector that belongs to constraint i.
Segment(lagrange, i) == SubSeq(lagrange, Offset(i) + 1, Offset(i) + Dim(i))

\* Entry (r, c) of obj_factor * H_obj(x) + sum_i H_i(x, lagrange_i).
RECURSIVE ConstraintHessSum(_, _, _, _, _)
ConstraintHessSum(i, x, lagrange, r, c) ==
    IF i = 0 THEN 0
    ELSE ConHess(Cons[i].fun, x, Segment(lagrange, i), Cons[i].args)[r][c]
            + ConstraintHessSum(i - 1, x, lagrange, r, c)

LagrangianHess(x, lagrange, obj_factor, r, c) ==
    obj_factor * ObjHess(x, call.args)[r][c]
        + ConstraintHessSum(Len(Cons), x, lagrange, r, c)

\* C7: hessian(x, lagrange, obj_factor) returns n(n+1)/2 values, the lower
\* triangle of obj_factor * H_obj + sum_i H_i(x, lagrange_i) row by row, and
\* every multiplier lies in exactly one constraint's segment.
C7_HessianPacked ==
    (ret.call = "hessian" /\ call.hess # "None") =>
        LET n == Len(ret.x)
        IN  /\ ret.out.ok
            /\ Len(ret.out.val) = (n * (n + 1)) \div 2
            /\ \A r \in 1..n : \A c \in 1..r :
                  ret.out.val[((r * (r - 1)) \div 2) + c]
                      = LagrangianHess(ret.x, ret.lagrange, ret.obj_factor, r, c)
            /\ \A k \in 1..Len(ret.lagrange) :
                  Cardinality({ i \in 1..Len(Cons) :
                                  Offset(i) < k /\ k <= Offset(i) + Dim(i) }) = 1

\* C7's case: two constraints of different dimensions, multipliers that all
\* differ, and an objective factor that is not 1.
C7_Witness ==
    /\ ret.call = "hessian"
    /\ ret.out.ok
    /\ Len(Cons) = 2
    /\ Dim(1) = 2 /\ Dim(2) = 1
    /\ ret.lagrange = <<2, 3, 4>>
    /\ ret.obj_factor = 2
    /\ ret.x # call.x0

\* A callable with the keyword arguments baked in when there are any.
Baked(fn, kw) ==
    IF fn \in {"None", "True", "False"} THEN [fn |-> fn, kw |-> ""]
    ELSE [fn |-> fn, kw |-> kw]

\* C8: with a method named, minimize is called once with the wrapped
\* callables and its result returned unchanged; no structure probe, no
\* IpoptProblemWrapper, no solver handle, no add_option and no solve.
C8_GenericPath ==
    call.method # "None" =>
        /\ hist.probe = 0 /\ hist.wrapper = 0 /\ hist.nlp = 0
        /\ hist.add_option = <<>> /\ hist.solve = 0
        /\ pc \in {"start", "returned"}
        /\ pc = "start" => hist.minimize = 0
        /\ pc = "returned" =>
              /\ hist.minimize = 1
              /\ result = [kind |-> "generic", res |-> hist.minimize_ret]
              /\ hist.minimize_args.fun = Baked("fun", call.kwargs)
              /\ hist.minimize_args.jac
                    = Baked(IF call.jac = "callable" THEN "jac" ELSE call.jac,
                            call.kwargs)
              /\ hist.minimize_args.hess = Baked(call.hess, call.kwargs)
              /\ hist.minimize_args.hessp = Baked(call.hessp, call.kwargs)
              /\ Len(hist.minimize_args.constraints) = Len(Cons)
              /\ \A i \in 1..Len(Cons) :
                    /\ hist.minimize_args.constraints[i].fun
                          = Baked("con_fun", Cons[i].kwargs)
                    /\ hist.minimize_args.constraints[i].jac
                          = Baked(IF IsCallable(Cons[i].jac) THEN "con_jac"
                                  ELSE Cons[i].jac, Cons[i].kwargs)

\* C8's case: a method other than SLSQP, keyword arguments, two constraints.
C8_Witness ==
    /\ pc = "returned"
    /\ call.method = "BFGS"
    /\ call.kwargs = "kw"
    /\ Len(Cons) = 2
    /\ result.kind = "generic"

\* What the caller's options dictionary holds under a name, as text or bytes.
Given(name) ==
    /\ ~call.options.none
    /\ \E i \in 1..Len(call.options.items) : call.options.items[i][1].name = name

GivenValue(name) ==
    call.options.items[CHOOSE i \in 1..Len(call.options.items) :
                           call.options.items[i][1].name = name][2]

\* Lines 547-560 have run.
Translated == hist.nlp = 1

\* C9: no option named disp or maxiter is handed to add_option, and the
\* caller's disp and maxiter values reach the solver as print_level and
\* max_iter.
C9_DispMaxiterMapped ==
    /\ \A k \in 1..Len(hist.add_option) :
          hist.add_option[k][1].name \notin {"disp", "maxiter"}
    /\ pc = "solving" =>
          /\ Given("disp") =>
                /\ DictHas(nlp.options, BytesKey("print_level"))
                /\ DictGet(nlp.options, BytesKey("print_level")) = GivenValue("disp")
          /\ Given("maxiter") =>
                /\ DictHas(nlp.options, BytesKey("max_iter"))
                /\ DictGet(nlp.options, BytesKey("max_iter")) = GivenValue("maxiter")

\* C9 holds of the callers that do not give print_level beside disp, nor
\* max_iter beside maxiter.
C9_WhenNewNameAbsent ==
    (/\ ~(Given("disp") /\ Given("print_level"))
     /\ ~(Given("maxiter") /\ Given("max_iter")))
    => C9_DispMaxiterMapped

\* The options after translation, with tol_default for the tol set when the
\* caller's options hold none.
OptionDefaults(tol_default) ==
    Translated =>
        /\ DictHas(options, BytesKey("print_level"))
        /\ DictGet(options, BytesKey("print_level"))
              = IF Given("print_level") THEN GivenValue("print_level")
                ELSE IF Given("disp") THEN GivenValue("disp") ELSE "0"
        /\ DictHas(options, BytesKey("tol"))
        /\ DictGet(options, BytesKey("tol"))
              = IF Given("tol") THEN GivenValue("tol") ELSE tol_default
        /\ DictHas(options, BytesKey("mu_strategy"))
        /\ DictGet(options, BytesKey("mu_strategy"))
              = IF Given("mu_strategy") THEN GivenValue("mu_strategy")
                ELSE "adaptive"
        /\ IF Given("hessian_approximation")
           THEN /\ DictHas(options, BytesKey("hessian_approximation"))
                /\ DictGet(options, BytesKey("hessian_approximation"))
                      = GivenValue("hessian_approximation")
           ELSE IF call.hess = "None" /\ call.hessp = "None"
           THEN /\ DictHas(options, BytesKey("hessian_approximation"))
                /\ DictGet(options, BytesKey("hessian_approximation"))
                      = "limited-memory"
           ELSE ~DictHas(options, BytesKey("hessian_approximation"))
        /\ pc = "solving" => nlp.options = options

\* C10: the options applied hold print_level, tol and mu_strategy, the
\* caller's value where one was given (disp counting for print_level), else
\* 0, the tol argument or 1e-8 when that is not given, and adaptive;
\* hessian_approximation is limited-memory exactly when the caller gave none
\* and hess and hessp are None.
C10_AsClaimed ==
    OptionDefaults(IF call.tol # "None" THEN call.tol ELSE "1e-8")

\* What holds of C10: the same with the tol argument used only when it is
\* given and not zero, since "tol or 1e-8" takes 0.0 for no tol at all.
C10_OptionDefaults ==
    OptionDefaults(IF call.tol \notin {"None", "0.0"} THEN call.tol ELSE "1e-8")

\* Where C10 fails: tol=0.0 and no tol among the options.
C10_ZeroTol ==
    /\ pc = "solving"
    /\ call.tol = "0.0"
    /\ ~Given("tol")
    /\ Given("disp")
    /\ DictGet(nlp.options, BytesKey("tol")) = "1e-8"

\* C11: options are applied one by one, in the dictionary's order, after the
\* solver handle is constructed and before solve; when add_option rejects an
\* option with a TypeError, minimize_ipopt raises a TypeError whose message
\* holds the option's name, its value and the original message, no further
\* option is applied, solve is not invoked and no result is returned.
C11_OptionsApplied ==
    /\ hist.add_option # <<>> => hist.nlp = 1
    /\ Len(nlp.options) <= Len(options)
    /\ nlp.options = SubSeq(options, 1, Len(nlp.options))
    /\ hist.solve <= 1
    /\ hist.solve = 1 => /\ nlp.options = options
                         /\ hist.add_option = options
    /\ (pc = "raised" /\ err.at = "add_option") =>
          LET k == Len(hist.add_option)
          IN  /\ k >= 1
              /\ hist.add_option = SubSeq(options, 1, k)
              /\ nlp.options = SubSeq(options, 1, k - 1)
              /\ err.type = "TypeError"
              /\ err.option = options[k]
              /\ err.msg = <<"Invalid option for IPOPT: ", options[k][1], ": ",
                             options[k][2], " (Original message: \"",
                             err.original, "\")">>
              /\ err.original \in SolverMessages
              /\ hist.solve = 0
              /\ result.kind = "none"
    /\ pc = "raised" => result.kind = "none"

\* C11's case: the second option of three or more is rejected after the
\* first was applied.
C11_Witness ==
    /\ pc = "raised"
    /\ err.at = "add_option"
    /\ Len(hist.add_option) = 2
    /\ Len(nlp.options) = 1
    /\ Len(options) >= 3
    /\ hist.solve = 0

\* C12: the result returned on the default path has success true exactly
\* when info's status is 0, status, message and fun equal to info's status,
\* status_msg and obj_val, and nfev, njev and nit equal to the adapter's
\* counters when solve returned: the numbers of objective and gradient
\* calls, and the iter_count of the last intermediate call, 0 without one.
C12_Result ==
    (pc = "returned" /\ result.kind = "ipopt") =>
        /\ result.info \in Infos
        /\ result.success = (result.info.status = 0)
        /\ result.status = result.info.status
        /\ result.message = result.info.status_msg
        /\ result.fun = result.info.obj_val
        /\ result.nfev = problem.nfev
        /\ result.njev = problem.njev
        /\ result.nit = problem.nit
        /\ result.nfev = hist.objective
        /\ result.njev = hist.gradient
        /\ result.nit = IF hist.intermediate = <<>> THEN 0
                        ELSE hist.intermediate[1]

\* C12's case: solve returns a status other than 0 after objective and
\* gradient calls, the last intermediate call having reported an iteration.
C12_Witness ==
    /\ pc = "returned"
    /\ result.kind = "ipopt"
    /\ result.info.status = 1
    /\ ~result.success
    /\ hist.objective = 2
    /\ hist.gradient = 1
    /\ hist.intermediate = <<1>>
    /\ result.nit = 1

\* The constraints that supply no Jacobian.
NoJac == { i \in 1..Len(Cons) : Cons[i].jac = "None" }

\* The block of jacobian(x) of constraint i is the forward difference of
\* constraint i's own function, d_i * n values in row-major order.
OwnFiniteDifference(i, x) ==
    /\ JacobianBlock(problem, i, x) = Flatten(OwnJacobian(i, x))
    /\ Len(JacobianBlock(problem, i, x)) = Dim(i) * Len(x)

\* C13: with two or more constraints that supply no Jacobian, the block of
\* jacobian(x) of each of them is the forward finite-difference Jacobian of
\* its own function, of d_i * n values as the block of ones recorded for it
\* in the structure.
C13_OwnFiniteDifference ==
    (ret.call = "jacobian" /\ Cardinality(NoJac) >= 2) =>
        \A i \in NoJac : OwnFiniteDifference(i, ret.x)

\* What holds of C13: the block of the last constraint, and of every
\* constraint whose function and arguments are those of the last one.
C13_LastConstraintOnly ==
    (ret.call = "jacobian" /\ Cardinality(NoJac) >= 2) =>
        \A i \in NoJac :
            (Cons[i].fun = Cons[Len(Cons)].fun /\ Cons[Len(Cons)].jac # "True")
                => OwnFiniteDifference(i, ret.x)

\* Where C13 fails: two constraints without a Jacobian and of different
\* dimensions, the block of the first holding the values of the second.
C13_OtherFunction ==
    /\ ret.call = "jacobian"
    /\ Len(Cons) = 2
    /\ NoJac = {1, 2}
    /\ Dim(1) # Dim(2)
    /\ Len(JacobianBlock(problem, 1, ret.x)) = Dim(2) * Len(ret.x)

=============================================================================
